---- MODULE Spec2Model ----
(***************************************************************************)
(* worktree-link: the symlink engine (linker.rs), the pattern walker       *)
(* (walker.rs) and the link/unlink loops of main.rs, over an explicit      *)
(* model of the file system.                                               *)
(*                                                                         *)
(* A file system is a function from absolute physical paths (sequences of  *)
(* component names, <<>> is "/") to entries.  An entry is a regular file,  *)
(* a real directory, or a symbolic link holding the path text it was       *)
(* created with.  One step of the model is one call of create_link, one    *)
(* call of unlink_targets or one link-mode run of main, applied to the     *)
(* current file system; `last` records the call, what the environment      *)
(* refused during it, the file system it saw and what it returned.         *)
(***************************************************************************)
EXTENDS Naturals, Sequences, FiniteSets, TLC

VARIABLES fs, last, runs

vars == <<fs, last, runs>>

(***************************************************************************)
(* Bounds of the model.                                                    *)
(***************************************************************************)
MaxSrcEntries == 2
MaxTgtEntries == 3
MaxEntries == 3
MaxPatterns == 2
MaxRuns == 1
MaxHops == 3
MaxWalkEntries == 3
MaxMainEntries == 2
MaxContentLen == 5

(***************************************************************************)
(* Paths.  PathBuf values the program builds itself are clean absolute     *)
(* paths (sequences).  Path text stored in a link, or handed to            *)
(* create_link as source_path, is a record: abs says whether it starts     *)
(* with "/", parts are its components (".." and "." may occur).            *)
(***************************************************************************)
Names == {"a", "b", ".git"}

SRoot == <<"s">>
TRoot == <<"t">>
ORoot == <<"o">>

Abs(p) == [abs |-> TRUE, parts |-> p]
Rel(p) == [abs |-> FALSE, parts |-> p]
NoDest == Abs(<<>>)

File == [kind |-> "file", dest |-> NoDest]
Dir == [kind |-> "dir", dest |-> NoDest]
Link(d) == [kind |-> "link", dest |-> d]

Front(p) == SubSeq(p, 1, Len(p) - 1)
Last(p) == p[Len(p)]

\* Path::parent of a clean absolute path ("/" has none; modelled as "/").
Parent(p) == IF p = <<>> THEN <<>> ELSE Front(p)

\* Path::starts_with: component-wise prefix.
StartsWith(p, q) == Len(q) <= Len(p) /\ SubSeq(p, 1, Len(q)) = q

\* Path::strip_prefix for a path known to start with q.
StripPrefix(p, q) == SubSeq(p, Len(q) + 1, Len(p))

StrictlyUnder(p, q) == StartsWith(p, q) /\ p # q

\* Path::ancestors, longest first: the path itself, its parent, ..., "/".
Ancestors(p) == [i \in 1..(Len(p) + 1) |-> SubSeq(p, 1, Len(p) + 1 - i)]

(***************************************************************************)
(* Path resolution as the kernel does it.                                  *)
(***************************************************************************)
Fail == [ok |-> FALSE, path |-> <<>>]
Ok(p) == [ok |-> TRUE, path |-> p]

RECURSIVE Resolve(_, _, _, _)
\* realpath(3): cur is the physical prefix resolved so far, rest the
\* components still to walk, hops the symlinks that may still be followed
\* (ELOOP beyond that).  Fails on a missing component and on a component
\* looked up in something that is not a directory.
Resolve(f, cur, rest, hops) ==
  IF rest = <<>> THEN Ok(cur)
  ELSE IF f[cur].kind # "dir" THEN Fail
  ELSE LET c == Head(rest)
           t == Tail(rest)
           nxt == Append(cur, c)
       IN IF c = "." THEN Resolve(f, cur, t, hops)
          ELSE IF c = ".." THEN Resolve(f, Parent(cur), t, hops)
          ELSE IF nxt \notin DOMAIN f THEN Fail
          ELSE IF f[nxt].kind = "link"
               THEN IF hops = 0 THEN Fail
                    ELSE Resolve(f, IF f[nxt].dest.abs THEN <<>> ELSE cur,
                                 f[nxt].dest.parts \o t, hops - 1)
          ELSE Resolve(f, nxt, t, hops)

\* fs::canonicalize of an absolute path.
Canonicalize(f, p) == Resolve(f, <<>>, p, MaxHops)

NoMeta == [ok |-> FALSE, phys |-> <<>>, ent |-> File]

\* The entry named Last(p) in the directory the parent resolved to (pr).
MetaIn(f, p, pr) ==
  IF pr.ok /\ f[pr.path].kind = "dir" /\ Append(pr.path, Last(p)) \in DOMAIN f
  THEN [ok |-> TRUE, phys |-> Append(pr.path, Last(p)), ent |-> f[Append(pr.path, Last(p))]]
  ELSE NoMeta

\* fs::symlink_metadata: the parent is resolved through symlinks, the last
\* component is not followed.  phys is where the entry physically lives.
SymlinkMetadata(f, p) ==
  IF p = <<>> THEN [ok |-> TRUE, phys |-> <<>>, ent |-> Dir]
  ELSE MetaIn(f, p, Canonicalize(f, Front(p)))

IsLink(m) == m.ok /\ m.ent.kind = "link"
IsDirAt(f, r) == r.ok /\ f[r.path].kind = "dir"

\* Path::exists (follows symlinks), Path::is_symlink (does not), Path::is_dir.
Exists(f, p) == Canonicalize(f, p).ok
IsSymlink(f, p) == IsLink(SymlinkMetadata(f, p))
IsDir(f, p) == IsDirAt(f, Canonicalize(f, p))

(***************************************************************************)
(* The mutating system calls.  A fault is what the environment may refuse: *)
(* "write" at q makes creating or removing the entry q fail (its directory *)
(* is not writable), "read" at q makes readlink of q fail.                 *)
(***************************************************************************)
NoFault == [kind |-> "none", path |-> <<>>]
WriteFault(q) == [kind |-> "write", path |-> q]
ReadFault(q) == [kind |-> "read", path |-> q]
ReadDirFault(q) == [kind |-> "readdir", path |-> q]

Denied(fault, q) == fault.kind = "write" /\ fault.path = q

Without(f, gone) == [q \in DOMAIN f \ gone |-> f[q]]

MkdirIn(f, p, fault, pr) ==
  IF ~IsDirAt(f, pr) THEN [err |-> "NotFound", fs |-> f]
  ELSE IF Append(pr.path, Last(p)) \in DOMAIN f THEN [err |-> "Exists", fs |-> f]
  ELSE IF Denied(fault, Append(pr.path, Last(p))) THEN [err |-> "Denied", fs |-> f]
  ELSE [err |-> "ok", fs |-> (Append(pr.path, Last(p)) :> Dir) @@ f]

\* mkdir(2).  NotFound also stands for ENOTDIR and ELOOP on the parent:
\* create_dir_all then retries from the parent and fails there the same way.
Mkdir(f, p, fault) ==
  IF p = <<>> THEN [err |-> "Exists", fs |-> f]
  ELSE MkdirIn(f, p, fault, Canonicalize(f, Front(p)))

\* create_dir_all after a mkdir that did not succeed for a reason other
\* than NotFound, and after its second mkdir: fine when p is a directory.
MkdirDone(f, p, m) ==
  IF m.err = "ok" THEN [ok |-> TRUE, fs |-> m.fs] ELSE [ok |-> IsDir(f, p), fs |-> f]

RECURSIVE CreateDirAll(_, _, _)

\* create_dir_all once the parent chain has been made (r): mkdir again.
CreateDirAllRetry(p, fault, r) ==
  IF ~r.ok THEN r ELSE MkdirDone(r.fs, p, Mkdir(r.fs, p, fault))

CreateDirAllFirst(f, p, fault, m) ==
  IF m.err = "NotFound" THEN CreateDirAllRetry(p, fault, CreateDirAll(f, Parent(p), fault))
  ELSE MkdirDone(f, p, m)

\* std::fs::create_dir_all.
CreateDirAll(f, p, fault) == CreateDirAllFirst(f, p, fault, Mkdir(f, p, fault))

SymlinkIn(f, src, p, fault, pr) ==
  IF IsDirAt(f, pr) /\ Append(pr.path, Last(p)) \notin DOMAIN f
     /\ ~Denied(fault, Append(pr.path, Last(p)))
  THEN [ok |-> TRUE, fs |-> (Append(pr.path, Last(p)) :> Link(src)) @@ f]
  ELSE [ok |-> FALSE, fs |-> f]

\* symlink(2): writes the text src at p; fails when p exists in any form.
SymlinkAt(f, src, p, fault) ==
  IF p = <<>> THEN [ok |-> FALSE, fs |-> f]
  ELSE SymlinkIn(f, src, p, fault, Canonicalize(f, Front(p)))

\* fs::remove_file: unlink(2) of a non-directory (m is its lstat); a symlink
\* is removed, not what it points to.
RemoveFile(f, m, fault) ==
  IF m.ok /\ m.ent.kind # "dir" /\ ~Denied(fault, m.phys)
  THEN [ok |-> TRUE, fs |-> Without(f, {m.phys})]
  ELSE [ok |-> FALSE, fs |-> f]

Subtree(f, root) == {q \in DOMAIN f : StartsWith(q, root)}

\* fs::remove_dir_all of a real directory (m is its lstat): the whole
\* physical subtree goes.  When an entry inside cannot be removed the call
\* fails; that entry and the directories above it stay, what was removed
\* before stays removed (here: everything else, the refused entry being met
\* last).
RemoveDirAll(f, m, fault) ==
  IF ~m.ok THEN [ok |-> FALSE, fs |-> f]
  ELSE IF fault.kind = "write" /\ fault.path \in Subtree(f, m.phys)
       THEN [ok |-> FALSE,
             fs |-> Without(f, {q \in Subtree(f, m.phys) : ~StartsWith(fault.path, q)})]
  ELSE [ok |-> TRUE, fs |-> Without(f, Subtree(f, m.phys))]

(***************************************************************************)
(* linker.rs                                                               *)
(***************************************************************************)
RemoveByMeta(f, meta, fault) ==
  IF ~meta.ok THEN [ok |-> FALSE, fs |-> f]
  ELSE IF meta.ent.kind = "dir" THEN RemoveDirAll(f, meta, fault)
  ELSE RemoveFile(f, meta, fault)

\* remove_entry asking fs::metadata: what a symlink leads to is removed.
remove_entry_following(f, p, fault) ==
  LET r == Canonicalize(f, p)
  IN RemoveByMeta(f, IF r.ok THEN [ok |-> TRUE, phys |-> r.path, ent |-> f[r.path]]
                     ELSE NoMeta, fault)

\* remove_entry: rm -rf of whatever is at p, a symlink being removed as a
\* file.
remove_entry(f, p, fault) == RemoveByMeta(f, SymlinkMetadata(f, p), fault)

\* create_parent_dirs: mkdir -p of the parent.
create_parent_dirs(f, p, fault) ==
  IF p = <<>> THEN [ok |-> TRUE, fs |-> f] ELSE CreateDirAll(f, Front(p), fault)

\* has_symlink_parent asking fs::metadata, which follows symlinks and so
\* never reports one.
has_symlink_parent_following(f, p) ==
  \E i \in 1..(Len(p) - 1) :
    /\ Exists(f, SubSeq(p, 1, i))
    /\ f[Canonicalize(f, SubSeq(p, 1, i)).path].kind = "link"

\* has_symlink_parent: some proper ancestor of p, inspected with lstat, is a
\* symlink.
has_symlink_parent(f, p) ==
  \E i \in 1..(Len(p) - 1) : IsSymlink(f, SubSeq(p, 1, i))

ReasonExists == "already exists (use --force to overwrite)"
ReasonParent == "parent directory is a symlink (remove it first)"

LinkErr(f) == [st |-> "err", act |-> "none", reason |-> "", fs |-> f]
LinkSkipped(f, why) == [st |-> "ok", act |-> "Skipped", reason |-> why, fs |-> f]
LinkDone(f, what) == [st |-> "ok", act |-> what, reason |-> "", fs |-> f]

\* symlink(source_path, target_path)? after create_parent_dirs(..)? gave r.
SymlinkAfterDirs(src, tgt, fault, r) ==
  IF ~r.ok THEN r ELSE SymlinkAt(r.fs, src, tgt, fault)

\* create_parent_dirs(target_path)?; symlink(source_path, target_path)?
Place(f, src, tgt, fault) ==
  SymlinkAfterDirs(src, tgt, fault, create_parent_dirs(f, tgt, fault))

PlaceAfterRemove(src, tgt, fault, r) ==
  IF ~r.ok THEN r ELSE Place(r.fs, src, tgt, fault)

\* The overwrite without remove_entry.
ReplaceInPlace(f, src, tgt, fault) == Place(f, src, tgt, fault)

\* remove_entry(target_path)?; create_parent_dirs(..)?; symlink(..)?
Replace(f, src, tgt, fault) ==
  PlaceAfterRemove(src, tgt, fault, remove_entry(f, tgt, fault))

\* Ok(what) when the mutation went through, its error otherwise.
LinkResult(r, what) == IF r.ok THEN LinkDone(r.fs, what) ELSE LinkErr(r.fs)

\* create_link testing only target_path.exists(), which follows symlinks.
create_link_exists_only(f, src, tgt, force, dry_run, fault) ==
  IF ~src.abs THEN LinkErr(f)
  ELSE IF Exists(f, tgt)
  THEN IF ~force THEN LinkSkipped(f, ReasonExists)
       ELSE IF has_symlink_parent(f, tgt) THEN LinkSkipped(f, ReasonParent)
       ELSE IF dry_run THEN LinkDone(f, "Overwritten")
       ELSE LinkResult(Replace(f, src, tgt, fault), "Overwritten")
  ELSE IF has_symlink_parent(f, tgt) THEN LinkSkipped(f, ReasonParent)
  ELSE IF dry_run THEN LinkDone(f, "Created")
  ELSE LinkResult(Place(f, src, tgt, fault), "Created")

\* create_link answering a dry run before it looks at the parents.
create_link_dry_first(f, src, tgt, force, dry_run, fault) ==
  IF ~src.abs THEN LinkErr(f)
  ELSE IF Exists(f, tgt) \/ IsSymlink(f, tgt)
  THEN IF ~force THEN LinkSkipped(f, ReasonExists)
       ELSE IF dry_run THEN LinkDone(f, "Overwritten")
       ELSE IF has_symlink_parent(f, tgt) THEN LinkSkipped(f, ReasonParent)
       ELSE LinkResult(Replace(f, src, tgt, fault), "Overwritten")
  ELSE IF dry_run THEN LinkDone(f, "Created")
  ELSE IF has_symlink_parent(f, tgt) THEN LinkSkipped(f, ReasonParent)
  ELSE LinkResult(Place(f, src, tgt, fault), "Created")

\* An absent target is created whatever stands above it.
create_link_unguarded(f, src, tgt, force, dry_run, fault) ==
  IF ~src.abs THEN LinkErr(f)
  ELSE IF Exists(f, tgt) \/ IsSymlink(f, tgt)
  THEN IF ~force THEN LinkSkipped(f, ReasonExists)
       ELSE IF has_symlink_parent(f, tgt) THEN LinkSkipped(f, ReasonParent)
       ELSE IF dry_run THEN LinkDone(f, "Overwritten")
       ELSE LinkResult(Replace(f, src, tgt, fault), "Overwritten")
  ELSE IF dry_run THEN LinkDone(f, "Created")
  ELSE LinkResult(Place(f, src, tgt, fault), "Created")

create_link(f, src, tgt, force, dry_run, fault) ==
  IF ~src.abs THEN LinkErr(f)
  ELSE IF Exists(f, tgt) \/ IsSymlink(f, tgt)
  THEN IF ~force THEN LinkSkipped(f, ReasonExists)
       ELSE IF has_symlink_parent(f, tgt) THEN LinkSkipped(f, ReasonParent)
       ELSE IF dry_run THEN LinkDone(f, "Overwritten")
       ELSE LinkResult(Replace(f, src, tgt, fault), "Overwritten")
  ELSE IF has_symlink_parent(f, tgt) THEN LinkSkipped(f, ReasonParent)
  ELSE IF dry_run THEN LinkDone(f, "Created")
  ELSE LinkResult(Place(f, src, tgt, fault), "Created")

(***************************************************************************)
(* Ordering of paths: Path's Ord compares component by component, each     *)
(* component by its bytes ('.' sorts before the letters).                  *)
(***************************************************************************)
NameOrder == <<".env", ".env.local", ".env.production", ".git",
               "a", "b", "o", "s", "t">>

NameRank == [n \in {NameOrder[i] : i \in DOMAIN NameOrder} |->
               CHOOSE i \in DOMAIN NameOrder : NameOrder[i] = n]

RECURSIVE PathLess(_, _)
PathLess(p, q) ==
  IF q = <<>> THEN FALSE
  ELSE IF p = <<>> THEN TRUE
  ELSE IF Head(p) = Head(q) THEN PathLess(Tail(p), Tail(q))
  ELSE NameRank[Head(p)] < NameRank[Head(q)]

RECURSIVE InsertByPath(_, _)
InsertByPath(sorted, x) ==
  IF sorted = <<>> THEN <<x>>
  ELSE IF PathLess(x.path, Head(sorted).path) THEN <<x>> \o sorted
  ELSE <<Head(sorted)>> \o InsertByPath(Tail(sorted), x)

RECURSIVE SortByPath(_)
\* actions.sort_by(path): a stable insertion sort gives the same list.
SortByPath(xs) ==
  IF xs = <<>> THEN <<>>
  ELSE InsertByPath(SortByPath(Front(xs)), Last(xs))

RECURSIVE NormalizeFrom(_, _)
NormalizeFrom(acc, rest) ==
  IF rest = <<>> THEN acc
  ELSE IF Head(rest) = ".."
       THEN NormalizeFrom(IF acc = <<>> THEN acc ELSE Front(acc), Tail(rest))
  ELSE IF Head(rest) = "." THEN NormalizeFrom(acc, Tail(rest))
  ELSE NormalizeFrom(Append(acc, Head(rest)), Tail(rest))

\* normalize_lexically of an absolute path: "." dropped, ".." pops the
\* component before it and never climbs above "/"; no file system access.
normalize_lexically(parts) == NormalizeFrom(<<>>, parts)

\* The fallback is the lexical form: no ancestor is canonicalized.
AncestorFallbackLexical(f, normalized, i) == normalized

RECURSIVE AncestorFallback(_, _, _)
\* The `for ancestor in normalized.ancestors()` loop: the first ancestor
\* (from position i, longest first) that canonicalizes, with the rest of
\* normalized re-appended; normalized itself when none does.
AncestorFallback(f, normalized, i) ==
  IF i > Len(normalized) + 1 THEN normalized
  ELSE IF Exists(f, Ancestors(normalized)[i])
       THEN Canonicalize(f, Ancestors(normalized)[i]).path
              \o StripPrefix(normalized, Ancestors(normalized)[i])
  ELSE AncestorFallback(f, normalized, i + 1)

CanonicalOrFallback(f, normalized, full) ==
  IF full.ok THEN full.path ELSE AncestorFallback(f, normalized, 1)

CanonicalizeNormalized(f, normalized) ==
  CanonicalOrFallback(f, normalized, Canonicalize(f, normalized))

\* canonicalize_with_ancestor_fallback of an absolute path: the canonical
\* form when the whole path resolves, else the canonical form of the deepest
\* ancestor that resolves with the rest re-appended.
canonicalize_with_ancestor_fallback(f, parts) ==
  CanonicalizeNormalized(f, normalize_lexically(parts))

Removed(p) == [act |-> "Removed", path |-> p, reason |-> ""]
UnlinkSkipped(p, why) == [act |-> "Skipped", path |-> p, reason |-> why]

ReasonUnreadable == "cannot read symlink"
ReasonRemoval == "removal failed"

Push(w, a) == [w EXCEPT !.actions = Append(@, a)]

\* `resolved`: an absolute link_dest as it is, a relative one joined to the
\* directory holding the link.
JoinDest(entry_path, link_dest) ==
  IF link_dest.abs THEN link_dest.parts ELSE Parent(entry_path) \o link_dest.parts

\* The closure after remove_entry(&entry_path) gave r.
VisitRemoved(w, entry_path, r) ==
  IF ~r.ok THEN Push(w, UnlinkSkipped(entry_path, ReasonRemoval))
  ELSE [fs |-> r.fs, actions |-> Append(w.actions, Removed(entry_path))]

\* The closure without the starts_with test: every symlink is taken.
VisitResolvedAnywhere(w, entry_path, c, canon) ==
  IF c.dry_run THEN Push(w, Removed(entry_path))
  ELSE VisitRemoved(w, entry_path, remove_entry(w.fs, entry_path, c.fault))

\* The closure removing without asking dry_run.
VisitResolvedEager(w, entry_path, c, canon) ==
  IF ~StartsWith(canon, c.canonical_source) THEN w
  ELSE VisitRemoved(w, entry_path, remove_entry(w.fs, entry_path, c.fault))

\* The closure once the destination is resolved (canon).
VisitResolved(w, entry_path, c, canon) ==
  IF ~StartsWith(canon, c.canonical_source) THEN w
  ELSE IF c.dry_run THEN Push(w, Removed(entry_path))
  ELSE VisitRemoved(w, entry_path, remove_entry(w.fs, entry_path, c.fault))

\* The closure from is_symlink on (meta is lstat of entry_path).
VisitMeta(w, entry_path, c, meta) ==
  IF ~IsLink(meta) THEN w
  ELSE IF c.fault = ReadFault(entry_path)
       THEN Push(w, UnlinkSkipped(entry_path, ReasonUnreadable))
  ELSE VisitResolved(w, entry_path, c,
         canonicalize_with_ancestor_fallback(w.fs, JoinDest(entry_path, meta.ent.dest)))

\* The closure unlink_targets hands to walk_symlinks.  w is the walk's state
\* (the file system and the actions pushed so far), c what the closure
\* captures.
visitor(w, entry_path, c) == VisitMeta(w, entry_path, c, SymlinkMetadata(w.fs, entry_path))

RECURSIVE walk_symlinks(_, _, _)
RECURSIVE WalkEntries(_, _, _, _)

\* One entry of the loop, meta its symlink_metadata: a symlink goes to the
\* visitor, a real directory not named .git is walked, the rest is passed.
\* A symlink that leads to a directory is entered like a directory.
WalkEntryMetaFollowing(w, path, c, meta) ==
  IF ~meta.ok THEN w
  ELSE IF meta.ent.kind = "link" /\ IsDir(w.fs, path)
       THEN walk_symlinks(w, Canonicalize(w.fs, path).path, c)
  ELSE IF meta.ent.kind = "link" THEN visitor(w, path, c)
  ELSE IF meta.ent.kind = "dir" /\ Last(path) # ".git" THEN walk_symlinks(w, path, c)
  ELSE w

\* Directories named .git are entered like any other.
WalkEntryMetaAnyName(w, path, c, meta) ==
  IF ~meta.ok THEN w
  ELSE IF meta.ent.kind = "link" THEN visitor(w, path, c)
  ELSE IF meta.ent.kind = "dir" THEN walk_symlinks(w, path, c)
  ELSE w

WalkEntryMeta(w, path, c, meta) ==
  IF ~meta.ok THEN w
  ELSE IF meta.ent.kind = "link" THEN visitor(w, path, c)
  ELSE IF meta.ent.kind = "dir" /\ Last(path) # ".git" THEN walk_symlinks(w, path, c)
  ELSE w

WalkEntry(w, path, c) == WalkEntryMeta(w, path, c, SymlinkMetadata(w.fs, path))

\* The loop giving up at the first removal that failed.
WalkEntriesAborting(w, dir, names, c) ==
  IF names = <<>> \/ \E i \in DOMAIN w.actions : w.actions[i].reason = ReasonRemoval
  THEN w
  ELSE WalkEntries(WalkEntry(w, Append(dir, Head(names)), c), dir, Tail(names), c)

\* The `for entry in entries` loop of walk_symlinks; names are the entries
\* of dir still to come, in the order read_dir yields them.
WalkEntries(w, dir, names, c) ==
  IF names = <<>> THEN w
  ELSE WalkEntries(WalkEntry(w, Append(dir, Head(names)), c), dir, Tail(names), c)

\* walk_symlinks: read_dir of a missing directory ends the walk of that
\* directory quietly; the entries come in the order c.order gives.
walk_symlinks(w, dir, c) ==
  IF dir \notin DOMAIN w.fs THEN w
  ELSE WalkEntries(w, dir,
                   SelectSeq(c.order, LAMBDA n : Append(dir, n) \in DOMAIN w.fs), c)

UnlinkResult(w) == [st |-> "ok", actions |-> SortByPath(w.actions), fs |-> w.fs]

UnlinkFrom(f, target_dir, dry_run, order, fault, cs) ==
  IF ~cs.ok \/ (target_dir \in DOMAIN f /\ f[target_dir].kind # "dir")
  THEN [st |-> "err", actions |-> <<>>, fs |-> f]
  ELSE UnlinkResult(walk_symlinks([fs |-> f, actions |-> <<>>], target_dir,
                                  [canonical_source |-> cs.path, dry_run |-> dry_run,
                                   order |-> order, fault |-> fault]))

\* unlink_targets.  order is the order in which read_dir lists names.
unlink_targets(f, source_dir, target_dir, dry_run, order, fault) ==
  UnlinkFrom(f, target_dir, dry_run, order, fault, Canonicalize(f, source_dir))

(***************************************************************************)
(* walker.rs.  A pattern is one gitignore line: "name", "name/"            *)
(* (directories only), "!name", where name is a glob matched against the   *)
(* basename of an entry at any depth.  In an Override a plain pattern      *)
(* whitelists and a "!" pattern ignores.                                   *)
(***************************************************************************)
Pat(n) == [name |-> n, neg |-> FALSE, dir_only |-> FALSE]
PatDir(n) == [name |-> n, neg |-> FALSE, dir_only |-> TRUE]
PatNeg(n) == [name |-> n, neg |-> TRUE, dir_only |-> FALSE]

\* builder.add(pattern) fails on a glob that does not parse: an unclosed
\* character class.
ValidGlob(pat) == pat.name # "["

\* Every pattern list builds.
build_overrides_lenient(patterns) == TRUE

\* build_overrides succeeds when every pattern was added.
build_overrides(patterns) == \A i \in DOMAIN patterns : ValidGlob(patterns[i])

\* The basenames a glob matches: "*" stands for any run of characters, every
\* other glob used here is literal.
GlobNames(g) ==
  IF g = ".env.*" THEN {".env.local", ".env.production"} ELSE {g}

GlobMatches(pat, path, is_dir) ==
  Last(path) \in GlobNames(pat.name) /\ (pat.dir_only => is_dir)

\* The first matching pattern decides.
MatchedByFirst(patterns, is_dir, hits) ==
  IF hits # {}
  THEN IF patterns[CHOOSE i \in hits : \A j \in hits : i <= j].neg
       THEN "Ignore" ELSE "Whitelist"
  ELSE IF ~is_dir /\ \E i \in DOMAIN patterns : ~patterns[i].neg THEN "Ignore"
  ELSE "None"

\* Override::matched: the last pattern that matches decides; when none does
\* and the set holds a whitelist pattern, a non-directory is Ignored.
MatchedBy(patterns, is_dir, hits) ==
  IF hits # {}
  THEN IF patterns[CHOOSE i \in hits : \A j \in hits : j <= i].neg
       THEN "Ignore" ELSE "Whitelist"
  ELSE IF ~is_dir /\ \E i \in DOMAIN patterns : ~patterns[i].neg THEN "Ignore"
  ELSE "None"

matched(patterns, path, is_dir) ==
  MatchedBy(patterns, is_dir,
            {i \in DOMAIN patterns : GlobMatches(patterns[i], path, is_dir)})

\* The repository's rules are asked first, the override only for what they
\* let through.
ShouldSkipRepoFirst(m, path, ignored) ==
  Last(path) \in ignored \/ m = "Ignore"

\* The walker's own verdict on an entry below the root: the override is
\* asked first and a verdict of Ignore or Whitelist is final; only an entry
\* the override has no verdict on is put to the repository's ignore rules
\* (ignored: the basenames these rules exclude).
ShouldSkip(m, path, ignored) ==
  m = "Ignore" \/ (m = "None" /\ Last(path) \in ignored)

\* The repository's rules stay in force whatever --no-ignore says.
RulesInForceAlways(no_ignore, repo) == repo.ignored

\* .ignore(!no_ignore) and the three git_* switches: with --no-ignore no
\* repository rule is in force.
RulesInForce(no_ignore, repo) == IF no_ignore THEN {} ELSE repo.ignored

\* What the walk has gathered: targets by the loop, matched_dirs by
\* filter_entry; st turns "err" when the iterator yields an error.
NoTargets == [st |-> "ok", targets |-> <<>>, matched_dirs |-> <<>>]

RECURSIVE WalkDir(_, _, _, _)

\* A whitelisted directory is recorded and entered all the same.
VisitEntryDescending(f, ws, path, wc, is_dir, m) ==
  IF ShouldSkip(m, path, wc.ignored) THEN ws
  ELSE IF Last(path) = ".git" THEN ws
  ELSE IF is_dir /\ m = "Whitelist"
       THEN WalkDir(f, [ws EXCEPT !.matched_dirs = Append(@, path)], path, wc)
  ELSE IF is_dir THEN WalkDir(f, ws, path, wc)
  ELSE IF m = "Whitelist" THEN [ws EXCEPT !.targets = Append(@, path)]
  ELSE ws

\* No entry is dropped for its name.
VisitEntryAnyName(f, ws, path, wc, is_dir, m) ==
  IF ShouldSkip(m, path, wc.ignored) THEN ws
  ELSE IF is_dir /\ m = "Whitelist"
       THEN [ws EXCEPT !.matched_dirs = Append(@, path)]
  ELSE IF is_dir THEN WalkDir(f, ws, path, wc)
  ELSE IF m = "Whitelist" THEN [ws EXCEPT !.targets = Append(@, path)]
  ELSE ws

\* One entry below the root, m the override's verdict on it: the walker
\* drops what its rules skip; filter_entry drops every entry named .git and
\* records a whitelisted directory without entering it; any other directory
\* is entered; the loop keeps the whitelisted entries.  A symlink is an
\* entry, never a directory.
VisitEntry(f, ws, path, wc, is_dir, m) ==
  IF ShouldSkip(m, path, wc.ignored) THEN ws
  ELSE IF Last(path) = ".git" THEN ws
  ELSE IF is_dir /\ m = "Whitelist"
       THEN [ws EXCEPT !.matched_dirs = Append(@, path)]
  ELSE IF is_dir THEN WalkDir(f, ws, path, wc)
  ELSE IF m = "Whitelist" THEN [ws EXCEPT !.targets = Append(@, path)]
  ELSE ws

VisitPath(f, ws, path, wc, is_dir) ==
  VisitEntry(f, ws, path, wc, is_dir, matched(wc.patterns, path, is_dir))

RECURSIVE WalkList(_, _, _, _, _)
\* `for entry in walker`: entry.with_context(..)? ends the loop at the first
\* error the iterator yields.
WalkList(f, ws, dir, names, wc) ==
  IF names = <<>> \/ ws.st = "err" THEN ws
  ELSE WalkList(f, VisitPath(f, ws, Append(dir, Head(names)), wc,
                             f[Append(dir, Head(names))].kind = "dir"),
                dir, Tail(names), wc)

\* The walker enters dir: a directory it cannot read makes the iterator
\* yield an error; otherwise its entries come in the order read_dir gives.
WalkDir(f, ws, dir, wc) ==
  IF wc.fault.kind = "readdir" /\ wc.fault.path = dir
  THEN [ws EXCEPT !.st = "err"]
  ELSE WalkList(f, ws, dir,
                SelectSeq(wc.order, LAMBDA n : Append(dir, n) \in DOMAIN f), wc)

RECURSIVE InsertPath(_, _)
InsertPath(sorted, p) ==
  IF sorted = <<>> THEN <<p>>
  ELSE IF PathLess(p, Head(sorted)) THEN <<p>> \o sorted
  ELSE <<Head(sorted)>> \o InsertPath(Tail(sorted), p)

RECURSIVE SortPaths(_)
\* targets.sort()
SortPaths(ps) ==
  IF ps = <<>> THEN <<>>
  ELSE InsertPath(SortPaths(Front(ps)), Last(ps))

RECURSIVE Dedup(_)
\* targets.dedup(): of equal neighbours one is kept.
Dedup(ps) ==
  IF Len(ps) < 2 THEN ps
  ELSE IF ps[1] = ps[2] THEN Dedup(Tail(ps))
  ELSE <<Head(ps)>> \o Dedup(Tail(ps))

\* The list is returned in the order the walk found its elements.
CollectedInWalkOrder(ws) ==
  IF ws.st = "err" THEN [st |-> "err", targets |-> <<>>]
  ELSE [st |-> "ok", targets |-> ws.targets \o ws.matched_dirs]

\* After the loop: matched_dirs joins targets, then sort and dedup.
Collected(ws) ==
  IF ws.st = "err" THEN [st |-> "err", targets |-> <<>>]
  ELSE [st |-> "ok", targets |-> Dedup(SortPaths(ws.targets \o ws.matched_dirs))]

\* collect_targets(source, patterns, no_ignore) in a repository repo
\* (ignored: the basenames its ignore rules exclude; order: the order in
\* which read_dir lists names).
collect_targets(f, source, patterns, no_ignore, repo, fault) ==
  IF ~build_overrides(patterns) THEN [st |-> "err", targets |-> <<>>]
  ELSE Collected(WalkDir(f, NoTargets, source,
                         [patterns |-> patterns,
                          ignored |-> RulesInForce(no_ignore, repo),
                          order |-> repo.order, fault |-> fault]))

(***************************************************************************)
(* main.rs, link mode: the loop over the candidates.  create_link's error  *)
(* is `?`-propagated: the run ends there, with the outcomes printed so     *)
(* far.                                                                    *)
(***************************************************************************)
LinkAction(r, source_path, target_path) ==
  [act |-> r.act, path |-> target_path, reason |-> r.reason, source |-> source_path]

RECURSIVE LinkLoop(_, _, _, _, _, _, _, _)

\* The loop body after create_link(source_path, &target_path, ..) gave r.
LinkStep(source, target, targets, force, dry_run, fault, done, r) ==
  IF r.st = "err" THEN [st |-> "err", actions |-> done, fs |-> r.fs]
  ELSE LinkLoop(r.fs, source, target, Tail(targets), force, dry_run, fault,
                Append(done, LinkAction(r, Head(targets),
                                        target \o StripPrefix(Head(targets), source))))

\* The link is placed in the target root itself, under the candidate's file
\* name.
LinkLoopFlat(f, source, target, targets, force, dry_run, fault, done) ==
  IF targets = <<>> THEN [st |-> "ok", actions |-> done, fs |-> f]
  ELSE LinkStep(source, target, targets, force, dry_run, fault, done,
                create_link(f, Abs(Head(targets)),
                            Append(target, Last(Head(targets))),
                            force, dry_run, fault))

\* for source_path in &targets: rel = source_path.strip_prefix(&source),
\* target_path = target.join(rel), create_link(..)?
LinkLoop(f, source, target, targets, force, dry_run, fault, done) ==
  IF targets = <<>> THEN [st |-> "ok", actions |-> done, fs |-> f]
  ELSE LinkStep(source, target, targets, force, dry_run, fault, done,
                create_link(f, Abs(Head(targets)),
                            target \o StripPrefix(Head(targets), source),
                            force, dry_run, fault))

\* collect_targets(..)? gave c: its error ends the run before the loop.
LinkCollected(f, source, target, force, dry_run, fault, c) ==
  IF c.st = "err" THEN [st |-> "err", actions |-> <<>>, fs |-> f]
  ELSE LinkLoop(f, source, target, c.targets, force, dry_run, fault, <<>>)

\* An empty pattern list is answered with a warning and Ok(()).
link_mode(f, source, target, patterns, no_ignore, repo, force, dry_run, fault) ==
  IF patterns = <<>> THEN [st |-> "ok", actions |-> <<>>, fs |-> f]
  ELSE LinkCollected(f, source, target, force, dry_run, fault,
                     collect_targets(f, source, patterns, no_ignore, repo, fault))

(***************************************************************************)
(* The file systems a run may start from: "/", the source root /s, the     *)
(* target root /t and a directory /o outside both, then up to              *)
(* MaxSrcEntries entries below /s and MaxTgtEntries below /t (MaxEntries   *)
(* in all), at most two levels deep, every entry inside a real directory.  *)
(***************************************************************************)
SrcNames == {"a", "b"}

Slots(root, names) ==
  {Append(root, n) : n \in names} \cup {root \o <<n, m>> : n \in names, m \in names}

SrcDests == {Abs(ORoot), Abs(Append(SRoot, "b"))}
TgtDests == {Abs(SRoot), Abs(Append(SRoot, "a")), Abs(SRoot \o <<"a", "b">>),
             Abs(ORoot), Abs(TRoot \o <<"a", "b">>), Rel(<<"..", "s", "a">>)}

Kinds(dests) == {File, Dir} \cup {Link(d) : d \in dests}

TreesOver(slots, root, kinds, max) ==
  LET shapes == {D \in SUBSET slots :
                   /\ Cardinality(D) <= max
                   /\ \A p \in D : Len(p) = Len(root) + 1 \/ Front(p) \in D}
  IN {t \in UNION {[D -> kinds] : D \in shapes} :
        \A p \in DOMAIN t : Len(p) = Len(root) + 1 \/ t[Front(p)].kind = "dir"}

Trees(root, names, dests, max) ==
  TreesOver(Slots(root, names), root, Kinds(dests), max)

SrcTrees == Trees(SRoot, SrcNames, SrcDests, MaxSrcEntries)
TgtTrees == Trees(TRoot, Names, TgtDests, MaxTgtEntries)

Base == (<<>> :> Dir) @@ (SRoot :> Dir) @@ (TRoot :> Dir) @@ (ORoot :> Dir)

NoCall == [op |-> "none", args |-> <<>>, fault |-> NoFault, pre |-> Base, res |-> <<>>]

Init ==
  /\ \E s \in SrcTrees, t \in TgtTrees :
       /\ Cardinality(DOMAIN s) + Cardinality(DOMAIN t) <= MaxEntries
       /\ fs = s @@ t @@ Base
  /\ last = NoCall
  /\ runs = 0

(***************************************************************************)
(* The inputs of one call.                                                 *)
(***************************************************************************)
TgtArgs == {Append(TRoot, "a"), Append(TRoot, "b"),
            TRoot \o <<"a", "b">>, TRoot \o <<"b", "a">>}

\* source_path for a target path: the source-side path main pairs it with,
\* or a relative path (which create_link rejects).
SrcArgs(tgt) == {Abs(SRoot \o StripPrefix(tgt, TRoot)), Rel(StripPrefix(tgt, TRoot))}

CreateFaults(tgt) ==
  {NoFault, WriteFault(tgt)} \cup
  (IF Len(tgt) > Len(TRoot) + 1 THEN {WriteFault(Front(tgt))} ELSE {})

LinksBelow(f, root) == {p \in DOMAIN f : StrictlyUnder(p, root) /\ f[p].kind = "link"}

UnlinkFaults(f) ==
  {NoFault} \cup {WriteFault(p) : p \in LinksBelow(f, TRoot)}
            \cup {ReadFault(p) : p \in LinksBelow(f, TRoot)}

LinkFaults == {NoFault, WriteFault(Append(TRoot, "a"))}

\* The orders in which read_dir may list the entries of a directory.
Orders == {o \in [1..Cardinality(Names) -> Names] : \A i, j \in DOMAIN o : o[i] = o[j] => i = j}

PatternAlphabet == {Pat("a"), Pat("b"), PatDir("a"), PatNeg("b")}
PatternSets == UNION {[1..n -> PatternAlphabet] : n \in 0..MaxPatterns}

\* The repository the source root lies in: its ignore rules exclude the
\* entries named b; read_dir lists the two names a source directory can hold
\* in either order.
Repo(order) == [ignored |-> {"b"}, order |-> order]
Repos == {Repo(<<"a", "b">>), Repo(<<"b", "a">>)}

\* The call op(args) ran on the current file system under fault and gave r:
\* r.fs is the file system it leaves, the rest of r what it returned.
Returned(op, args, fault, r) ==
  /\ fs' = r.fs
  /\ last' = [op |-> op, args |-> args, fault |-> fault, pre |-> fs,
              res |-> [k \in DOMAIN r \ {"fs"} |-> r[k]]]

(***************************************************************************)
(* One call of create_link.                                                *)
(***************************************************************************)
CreateLink ==
  /\ runs < MaxRuns
  /\ \E tgt \in TgtArgs, force \in BOOLEAN, dry_run \in BOOLEAN :
       \E src \in SrcArgs(tgt), fault \in CreateFaults(tgt) :
         Returned("create_link",
                  [src |-> src, tgt |-> tgt, force |-> force, dry_run |-> dry_run],
                  fault, create_link(fs, src, tgt, force, dry_run, fault))
  /\ runs' = runs + 1

(***************************************************************************)
(* One run of main in unlink mode: unlink_targets(source, target).         *)
(***************************************************************************)
UnlinkTargets ==
  /\ runs < MaxRuns
  /\ \E dry_run \in BOOLEAN, order \in Orders, fault \in UnlinkFaults(fs) :
       Returned("unlink_targets", [dry_run |-> dry_run], fault,
                unlink_targets(fs, SRoot, TRoot, dry_run, order, fault))
  /\ runs' = runs + 1

(***************************************************************************)
(* One run of main in link mode.                                           *)
(***************************************************************************)
LinkMode ==
  /\ runs < MaxRuns
  /\ \E patterns \in PatternSets, force \in BOOLEAN, dry_run \in BOOLEAN :
       \E no_ignore \in BOOLEAN, repo \in Repos, fault \in LinkFaults :
         Returned("link_mode",
                  [patterns |-> patterns, no_ignore |-> no_ignore,
                   force |-> force, dry_run |-> dry_run],
                  fault, link_mode(fs, SRoot, TRoot, patterns, no_ignore, repo,
                                   force, dry_run, fault))
  /\ runs' = runs + 1

Next == CreateLink \/ UnlinkTargets \/ LinkMode

Spec == Init /\ [][Next]_vars

(***************************************************************************)
(* collect_targets on its own.  The source trees it may walk: up to        *)
(* MaxWalkEntries entries below /s, files, directories and symlinks, named *)
(* after an environment file, .git or a; the directories .git and a may    *)
(* hold entries.                                                           *)
(***************************************************************************)
WalkNames == {".env", ".env.local", ".env.production", ".git", "a"}

WalkSlots ==
  {Append(SRoot, n) : n \in WalkNames}
    \cup {SRoot \o <<n, m>> : n \in {".git", "a"}, m \in {".env", "a"}}

WalkTrees == TreesOver(WalkSlots, SRoot, Kinds({Abs(ORoot)}), MaxWalkEntries)

InitCollect ==
  /\ \E s \in WalkTrees : fs = s @@ Base
  /\ last = NoCall
  /\ runs = 0

\* The lines of a .worktreelinks file; "[" is no glob.
WalkAlphabet == {Pat(".env"), PatNeg(".env"), Pat(".env.*"), PatNeg(".env.production"),
                 Pat("a"), PatDir("a"), Pat(".git"), Pat("[")}

EnvPatterns == <<Pat(".env"), Pat(".env.*"), PatNeg(".env.production")>>

WalkPatternSets ==
  UNION {[1..n -> WalkAlphabet] : n \in 0..MaxPatterns} \cup {EnvPatterns}

\* What the repository's ignore rules exclude: the entries named a, or the
\* entries named .env.
IgnoreRules == {{"a"}, {".env"}}

EntryNames(f, root) == {Last(p) : p \in {q \in DOMAIN f : StrictlyUnder(q, root)}}

Perms(S) == {o \in [1..Cardinality(S) -> S] : \A i, j \in DOMAIN o : o[i] = o[j] => i = j}

\* A directory the walker cannot read: the root or a directory below it.
WalkFaults(f) ==
  {NoFault, ReadDirFault(SRoot)}
    \cup {ReadDirFault(p) : p \in {q \in DOMAIN f : StrictlyUnder(q, SRoot) /\ f[q].kind = "dir"}}

\* The walk reads and writes nothing: the file system is as it was.
Walked(f, c) == [st |-> c.st, targets |-> c.targets, fs |-> f]

Collect ==
  /\ runs < MaxRuns
  /\ \E patterns \in WalkPatternSets, no_ignore \in BOOLEAN, ignored \in IgnoreRules :
       \E order \in Perms(EntryNames(fs, SRoot)), fault \in WalkFaults(fs) :
         Returned("collect_targets",
                  [patterns |-> patterns, no_ignore |-> no_ignore, ignored |-> ignored],
                  fault,
                  Walked(fs, collect_targets(fs, SRoot, patterns, no_ignore,
                                             [ignored |-> ignored, order |-> order],
                                             fault)))
  /\ runs' = runs + 1

SpecCollect == InitCollect /\ [][Collect]_vars

(***************************************************************************)
(* main.rs from the command line on: the two roots are resolved and        *)
(* checked, then the run goes to unlink mode or to link mode.  A result    *)
(* tells what the run went on to do: did holds "config" when the pattern   *)
(* file was read and "walk" when a tree was walked.                        *)
(***************************************************************************)
NoSource == [some |-> FALSE, path |-> <<>>]
Source(p) == [some |-> TRUE, path |-> p]

\* bail!/`?`: the run ends there.
Failed(f, did) == [st |-> "err", did |-> did, actions |-> <<>>, fs |-> f]

Ran(did, r) == [st |-> r.st, did |-> did, actions |-> r.actions, fs |-> r.fs]

\* fs::canonicalize(..)? gave c, then `if !c.is_dir() { bail!(..) }`.
DirOrFail(f, c) == IF IsDirAt(f, c) THEN c ELSE Fail

ResolveTarget(f, target) == DirOrFail(f, Canonicalize(f, target))

\* detect_main_worktree_in: git names the main worktree or fails; the path
\* it names is canonicalized.
detect_main_worktree_in(f, git) ==
  IF git.ok THEN Canonicalize(f, git.path) ELSE Fail

ResolveSource(f, source, git) ==
  IF source.some THEN DirOrFail(f, Canonicalize(f, source.path))
  ELSE detect_main_worktree_in(f, git)

\* Nested roots pass.
RootsOkNested(source, target) ==
  /\ target.ok /\ source.ok
  /\ source.path # target.path

\* Both roots resolved, they differ and neither lies in the other.
RootsOk(source, target) ==
  /\ target.ok /\ source.ok
  /\ source.path # target.path
  /\ ~StartsWith(target.path, source.path)
  /\ ~StartsWith(source.path, target.path)

\* What link mode goes on to do after Config::from_file: nothing more for
\* an empty list, build_overrides and, when that succeeds, the walk.
LinkDid(patterns) ==
  IF patterns # <<>> /\ build_overrides(patterns) THEN {"config", "walk"}
  ELSE {"config"}

\* The else branch of `if cli.unlink`: Config::from_file(&config_path)?,
\* then link mode on the patterns it gave.
MainLink(f, cli, env, source, target) ==
  IF ~cli.config.readable THEN Failed(f, {"config"})
  ELSE Ran(LinkDid(cli.config.patterns),
           link_mode(f, source, target, cli.config.patterns, cli.no_ignore,
                     Repo(env.order), cli.force, cli.dry_run, env.fault))

MainUnlink(f, cli, env, source, target) ==
  Ran({"walk"}, unlink_targets(f, source, target, cli.dry_run, env.order, env.fault))

MainResolved(f, cli, env, source, target) ==
  IF ~RootsOk(source, target) THEN Failed(f, {})
  ELSE IF cli.unlink THEN MainUnlink(f, cli, env, source.path, target.path)
  ELSE MainLink(f, cli, env, source.path, target.path)

main(f, cli, env) ==
  MainResolved(f, cli, env, ResolveSource(f, cli.source, env.git),
               ResolveTarget(f, cli.target))

(***************************************************************************)
(* One run of main from the command line.  The trees: at most one entry    *)
(* below /s and MaxMainEntries in all.                                     *)
(***************************************************************************)
InitMain ==
  /\ \E s \in Trees(SRoot, SrcNames, SrcDests, 1),
        t \in Trees(TRoot, Names, TgtDests, MaxMainEntries) :
       /\ Cardinality(DOMAIN s) + Cardinality(DOMAIN t) <= MaxMainEntries
       /\ fs = s @@ t @@ Base
  /\ last = NoCall
  /\ runs = 0

\* TARGET and --source as given on the command line.
TargetArgs == {TRoot, Append(TRoot, "a")}
SourceArgs == {NoSource, Source(SRoot), Source(Append(SRoot, "a")), Source(TRoot)}

\* What `git worktree list` answers when it is asked.
GitAnswers(source) == IF source.some THEN {Fail} ELSE {Fail, Ok(SRoot)}

\* The pattern file: unreadable, or the patterns Config::parse found in it.
Unreadable == [readable |-> FALSE, patterns |-> <<>>]
Patterns(ps) == [readable |-> TRUE, patterns |-> ps]
Configs == {Unreadable, Patterns(<<>>), Patterns(<<Pat("a")>>), Patterns(<<Pat("[")>>),
            Patterns(<<Pat("a"), Pat("[")>>), Patterns(<<Pat("["), Pat("a")>>)}

\* The command lines: --unlink takes no pattern file and neither --force
\* nor --no-ignore.
UnlinkClis ==
  {[source |-> s, target |-> t, unlink |-> TRUE, dry_run |-> d,
    force |-> FALSE, no_ignore |-> FALSE, config |-> Unreadable]
   : s \in SourceArgs, t \in TargetArgs, d \in BOOLEAN}

LinkClis ==
  {[source |-> s, target |-> t, unlink |-> FALSE, dry_run |-> d,
    force |-> fo, no_ignore |-> ni, config |-> c]
   : s \in SourceArgs, t \in TargetArgs, d \in BOOLEAN, fo \in BOOLEAN,
     ni \in BOOLEAN, c \in Configs}

Main ==
  /\ runs < MaxRuns
  /\ \E cli \in UnlinkClis \cup LinkClis :
       \E git \in GitAnswers(cli.source), order \in Orders :
         Returned("main", [cli |-> cli, git |-> git], NoFault,
                  main(fs, cli, [git |-> git, order |-> order, fault |-> NoFault]))
  /\ runs' = runs + 1

SpecMain == InitMain /\ [][Main]_vars

(***************************************************************************)
(* Vocabulary of the properties.                                           *)
(***************************************************************************)
Range(xs) == {xs[i] : i \in DOMAIN xs}

\* Something exists at p in any form: a file, a directory, a symlink, a
\* broken symlink.
Present(f, p) == SymlinkMetadata(f, p).ok

\* One of the directories above p is, physically, a symlink.
SymlinkAncestor(f, p) ==
  \E i \in 1..(Len(p) - 1) :
    SubSeq(p, 1, i) \in DOMAIN f /\ f[SubSeq(p, 1, i)].kind = "link"

\* The link stored at p resolves, in f, to a place under the canonical
\* source root.
UnderSource(f, p) ==
  StartsWith(canonicalize_with_ancestor_fallback(f, JoinDest(p, f[p].dest)),
             Canonicalize(f, SRoot).path)

\* The paths and classes a run reported, in the order it reported them.
Outcome(actions) == [i \in DOMAIN actions |-> <<actions[i].path, actions[i].act>>]

Reported(p) == \E a \in Range(last.res.actions) : a.path = p

\* What unlink_targets does to the current file system when nothing fails.
UnlinkNow(order) == unlink_targets(fs, SRoot, TRoot, FALSE, order, NoFault)

\* The create_link of `last` put a link in place.
Linked ==
  /\ last.op = "create_link"
  /\ ~last.args.dry_run
  /\ last.res.st = "ok"
  /\ last.res.act \in {"Created", "Overwritten"}

(***************************************************************************)
(* C1.  create_link never mutates the file system when a directory above   *)
(* target_path is a symlink: whatever force and dry_run are, and whether   *)
(* or not the target exists, it returns Skipped and the file system is as  *)
(* it was.  (source_path absolute, as create_link requires.)               *)
(***************************************************************************)
C1_SymlinkedAncestorSkips ==
  (/\ last.op = "create_link"
   /\ last.args.src.abs
   /\ SymlinkAncestor(last.pre, last.args.tgt))
  => (last.res.st = "ok" /\ last.res.act = "Skipped" /\ fs = last.pre)

\* A forced, real create_link on a target that exists through a symlinked
\* directory.
C1_Witness ==
  /\ last.op = "create_link"
  /\ last.args.src.abs /\ last.args.force /\ ~last.args.dry_run
  /\ last.fault = NoFault
  /\ SymlinkAncestor(last.pre, last.args.tgt)
  /\ Present(last.pre, last.args.tgt)
  /\ last.res.act = "Skipped"

(***************************************************************************)
(* C2.  Round trip: for a candidate C of collect_targets, after            *)
(* create_link(C, target/rel(C)) has put the link in place, unlink_targets *)
(* (dry_run = false) reports Removed for that target path and the path no  *)
(* longer exists.                                                          *)
(***************************************************************************)
Candidates(f) ==
  UNION {Range(collect_targets(f, SRoot, ps, ni, Repo(<<"a", "b">>), NoFault).targets)
         : ps \in PatternSets, ni \in BOOLEAN}

C2_RoundTrip ==
  (/\ Linked
   /\ last.args.src.parts \in Candidates(last.pre)
   /\ last.args.tgt = TRoot \o StripPrefix(last.args.src.parts, SRoot))
  => \A order \in Orders :
       /\ UnlinkNow(order).st = "ok"
       /\ Removed(last.args.tgt) \in Range(UnlinkNow(order).actions)
       /\ ~Present(UnlinkNow(order).fs, last.args.tgt)

(***************************************************************************)
(* C3.  create_link writes source_path verbatim, so when source_path is    *)
(* itself a symlink inside the source tree, whatever it points to, the     *)
(* link holds source_path and a later unlink_targets finds that            *)
(* destination and removes the link.                                       *)
(***************************************************************************)
C3_SymlinkSourceRoundTrip ==
  (/\ Linked
   /\ StrictlyUnder(last.args.src.parts, SRoot)
   /\ last.args.src.parts \in DOMAIN last.pre
   /\ last.pre[last.args.src.parts].kind = "link")
  => /\ IsSymlink(fs, last.args.tgt)
     /\ SymlinkMetadata(fs, last.args.tgt).ent.dest = last.args.src
     /\ \A order \in Orders :
          /\ Removed(last.args.tgt) \in Range(UnlinkNow(order).actions)
          /\ ~Present(UnlinkNow(order).fs, last.args.tgt)

ForcedOnAbsent ==
  /\ last.op = "create_link"
  /\ last.args.force /\ ~last.args.dry_run
  /\ ~Present(last.pre, last.args.tgt)
  /\ last.res.st = "ok"

Again == create_link(fs, last.args.src, last.args.tgt, TRUE, FALSE, NoFault)

CreatedThenOverwritten ==
  /\ last.res.act = "Created"
  /\ Again.st = "ok" /\ Again.act = "Overwritten"
  /\ Again.fs = fs

C6_DryRunChangesNothing ==
  (last.op # "none" /\ last.args.dry_run) => fs = last.pre

\* A dry unlink run that reports a removal.
C6_Witness ==
  /\ last.op = "unlink_targets"
  /\ last.args.dry_run
  /\ \E a \in Range(last.res.actions) : a.act = "Removed"
  /\ fs = last.pre

(***************************************************************************)
(* C7.  Dry-run parity: from the same file system and arguments a dry run  *)
(* (link mode or unlink mode) reports, path by path, the classes a real    *)
(* run reports.  `last` is the real run; the dry run is the one the mode   *)
(* would make on the file system the real run started from.                *)
(***************************************************************************)
DryLink ==
  link_mode(last.pre, SRoot, TRoot, last.args.patterns, last.args.no_ignore,
            Repo(<<"a", "b">>), last.args.force, TRUE, NoFault)

DryUnlink(order) == unlink_targets(last.pre, SRoot, TRoot, TRUE, order, NoFault)

RealLink == last.op = "link_mode" /\ ~last.args.dry_run
RealUnlink == last.op = "unlink_targets" /\ ~last.args.dry_run

LinkParity == Outcome(DryLink.actions) = Outcome(last.res.actions)
UnlinkParity ==
  \A order \in Orders : Outcome(DryUnlink(order).actions) = Outcome(last.res.actions)

\* Whether the link at p resolves under the source root does not depend on
\* the other links below the target root being there.
Independent(f, p) ==
  \A gone \in SUBSET (LinksBelow(f, TRoot) \ {p}) :
    UnderSource(Without(f, gone), p) = UnderSource(f, p)

C8_ExistingTargetSkipped ==
  (/\ last.op = "create_link"
   /\ last.args.src.abs
   /\ ~last.args.force
   /\ Present(last.pre, last.args.tgt))
  => /\ last.res.st = "ok"
     /\ last.res.act = "Skipped" /\ last.res.reason = ReasonExists
     /\ fs = last.pre

\* The target is a broken symlink, the call is a real one.
C8_Witness ==
  /\ last.op = "create_link"
  /\ last.args.src.abs /\ ~last.args.force /\ ~last.args.dry_run
  /\ IsSymlink(last.pre, last.args.tgt) /\ ~Exists(last.pre, last.args.tgt)
  /\ last.res.act = "Skipped" /\ last.res.reason = ReasonExists

(***************************************************************************)
(* C9.  In link mode a failure while processing one candidate is recorded  *)
(* as Skipped with a reason and every remaining candidate is still         *)
(* processed: the run succeeds with one outcome per candidate.             *)
(***************************************************************************)
C9_EveryCandidateProcessed ==
  (last.op = "link_mode" /\ last.args.patterns # <<>>)
  => /\ last.res.st = "ok"
     /\ [i \in DOMAIN last.res.actions |-> last.res.actions[i].source]
          = collect_targets(last.pre, SRoot, last.args.patterns, last.args.no_ignore,
                            Repo(<<"a", "b">>), NoFault).targets

(***************************************************************************)
(* C10.  In unlink_targets a removal failure is recorded as Skipped for    *)
(* that path and does not abort the walk: every other symlink under the    *)
(* target root that resolves under the source root still gets its own      *)
(* outcome.  `last.fault` names the link whose removal is refused.         *)
(***************************************************************************)
\* The walk reaches p: no directory between the target root and p is named
\* .git.
Reached(p) ==
  \A i \in (Len(TRoot) + 1)..(Len(p) - 1) : p[i] # ".git"

RemovalRefused ==
  /\ RealUnlink
  /\ last.fault.kind = "write"
  /\ UnlinkSkipped(last.fault.path, ReasonRemoval) \in Range(last.res.actions)

\* C10 as stated: after a refused removal every other link below the
\* target root that resolves under the source root has an outcome.
C10_Original ==
  RemovalRefused
  => /\ last.res.st = "ok"
     /\ \A p \in LinksBelow(last.pre, TRoot) \ {last.fault.path} :
          UnderSource(last.pre, p) => Reported(p)

\* C10 for the links the walk reaches that resolve under the source root
\* whatever happens to the other links: the refused one is recorded as
\* Skipped and stays, each of the others is removed and recorded as Removed.
C10_FailureDoesNotAbort ==
  (/\ RealUnlink
   /\ last.fault.kind = "write"
   /\ Reached(last.fault.path)
   /\ UnderSource(last.pre, last.fault.path)
   /\ Independent(last.pre, last.fault.path))
  => /\ last.res.st = "ok"
     /\ UnlinkSkipped(last.fault.path, ReasonRemoval) \in Range(last.res.actions)
     /\ last.fault.path \in DOMAIN fs
     /\ fs[last.fault.path] = last.pre[last.fault.path]
     /\ \A p \in LinksBelow(last.pre, TRoot) \ {last.fault.path} :
          (Reached(p) /\ UnderSource(last.pre, p) /\ Independent(last.pre, p))
          => (Removed(p) \in Range(last.res.actions) /\ p \notin DOMAIN fs)

\* A refused removal with two more links into the source tree, one listed
\* before it and one after.
C10_Witness ==
  /\ RemovalRefused
  /\ last.fault.path = Append(TRoot, "a")
  /\ Removed(Append(TRoot, ".git")) \in Range(last.res.actions)
  /\ Removed(Append(TRoot, "b")) \in Range(last.res.actions)

(***************************************************************************)
(* C11.  Unlink mode decides from the target tree alone, never reading the *)
(* pattern set and never walking the source side: a dangling link under    *)
(* the target root whose destination path is under the source root is      *)
(* still Removed.                                                          *)
(***************************************************************************)
\* The destination of the link at p as a path: joined to the link's
\* directory when relative, "." and ".." folded.
DestPath(f, p) == normalize_lexically(JoinDest(p, f[p].dest))

\* The link at p is dangling and its destination path is under the source
\* root.
DanglingIntoSource(f, p) ==
  /\ StartsWith(DestPath(f, p), SRoot)
  /\ ~Exists(f, p)

\* Some directory on the way from the source root to the destination of the
\* link at p is a symlink.
ThroughSourceLink(f, p) ==
  \E i \in Len(SRoot)..(Len(DestPath(f, p)) - 1) :
    IsSymlink(f, SubSeq(DestPath(f, p), 1, i))

\* C11 as stated: a real unlink run in which nothing fails removes every
\* dangling link it reaches whose destination path is under the source
\* root, and leaves everything outside the target root as it was.
C11_DanglingLinkRemoved ==
  (RealUnlink /\ last.fault = NoFault)
  => /\ last.res.st = "ok"
     /\ \A q \in DOMAIN last.pre :
          ~StrictlyUnder(q, TRoot) => (q \in DOMAIN fs /\ fs[q] = last.pre[q])
     /\ \A p \in LinksBelow(last.pre, TRoot) :
          (Reached(p) /\ DanglingIntoSource(last.pre, p))
          => (Removed(p) \in Range(last.res.actions) /\ p \notin DOMAIN fs)

\* The same for the dangling links whose destination path crosses no
\* symlink below the source root.
C11_ExceptThroughSourceLink ==
  (RealUnlink /\ last.fault = NoFault)
  => /\ last.res.st = "ok"
     /\ \A q \in DOMAIN last.pre :
          ~StrictlyUnder(q, TRoot) => (q \in DOMAIN fs /\ fs[q] = last.pre[q])
     /\ \A p \in LinksBelow(last.pre, TRoot) :
          (Reached(p) /\ DanglingIntoSource(last.pre, p)
                      /\ ~ThroughSourceLink(last.pre, p))
          => (Removed(p) \in Range(last.res.actions) /\ p \notin DOMAIN fs)

\* A dangling link into the source tree was removed.
C11_DanglingRemoved ==
  /\ RealUnlink /\ last.fault = NoFault
  /\ \E p \in LinksBelow(last.pre, TRoot) :
       /\ DanglingIntoSource(last.pre, p)
       /\ Removed(p) \in Range(last.res.actions)
       /\ p \notin DOMAIN fs

(***************************************************************************)
(* Vocabulary of the properties of collect_targets.                        *)
(***************************************************************************)
WalkOk == last.op = "collect_targets" /\ last.res.st = "ok"

Targets == Range(last.res.targets)

\* The override's verdict on the entry at p.
Verdict(p) == matched(last.args.patterns, p, last.pre[p].kind = "dir")

\* The names the repository's ignore rules exclude in this call.
InForce == IF last.args.no_ignore THEN {} ELSE last.args.ignored

\* The entries below the source root.
Entries == {p \in DOMAIN last.pre : StrictlyUnder(p, SRoot)}

\* The walk enters the directory d: it is not named .git, the override has
\* no verdict on it and the rules in force do not exclude it.
Entered(d) == Last(d) # ".git" /\ Verdict(d) = "None" /\ Last(d) \notin InForce

\* The walk comes to p: it enters every directory between the source root
\* and p.
ComesTo(p) ==
  \A i \in (Len(SRoot) + 1)..(Len(p) - 1) : Entered(SubSeq(p, 1, i))

(***************************************************************************)
(* C12.  Directory collapse: in every list returned by collect_targets no  *)
(* element is a strict path-prefix of another; a Whitelisted directory is  *)
(* recorded and never descended.                                           *)
(***************************************************************************)
C12_DirectoryCollapse ==
  WalkOk
  => /\ \A p, q \in Targets : ~StrictlyUnder(q, p)
     /\ \A d \in Entries :
          (/\ last.pre[d].kind = "dir" /\ Last(d) # ".git"
           /\ ComesTo(d) /\ Verdict(d) = "Whitelist")
          => (d \in Targets /\ \A q \in Entries : StrictlyUnder(q, d) => q \notin Targets)

\* A directory was returned and an entry inside it is whitelisted too.
C12_Witness ==
  /\ WalkOk
  /\ \E d \in Targets, q \in Entries :
       StrictlyUnder(q, d) /\ Verdict(q) = "Whitelist" /\ Last(q) # ".git"

(***************************************************************************)
(* C13.  Determinism: collect_targets returns its list sorted ascending    *)
(* with no duplicates, unlink_targets returns its outcomes sorted by path; *)
(* over an unchanged tree two runs give identical output whatever order    *)
(* the file system enumerates directory entries in.                        *)
(***************************************************************************)
Ascending(ps) == \A i \in 1..(Len(ps) - 1) : PathLess(ps[i], ps[i + 1])

\* The candidates of the link-mode run of `last` when read_dir lists in the
\* order of repo.
CandidatesIn(repo) ==
  collect_targets(last.pre, SRoot, last.args.patterns, last.args.no_ignore,
                  repo, NoFault)

\* The unlink run of `last` again, from the same tree, with read_dir
\* listing in order.
UnlinkIn(order) ==
  unlink_targets(last.pre, SRoot, TRoot, last.args.dry_run, order, last.fault)

\* The candidates a link-mode run worked through are strictly ascending and
\* are the list collect_targets returns for every read_dir order; the
\* outcomes of an unlink run are strictly ascending by path and, when the
\* run left the tree as it was, the same for every read_dir order.
C13_Deterministic ==
  /\ (last.op = "link_mode" /\ last.res.st = "ok")
     => /\ Ascending([i \in DOMAIN last.res.actions |-> last.res.actions[i].source])
        /\ \A repo \in Repos :
             CandidatesIn(repo).targets
               = [i \in DOMAIN last.res.actions |-> last.res.actions[i].source]
  /\ last.op = "unlink_targets"
     => /\ Ascending([i \in DOMAIN last.res.actions |-> last.res.actions[i].path])
        /\ fs = last.pre
           => \A order \in Orders : UnlinkIn(order).actions = last.res.actions

\* An unlink run that changed nothing and reported two outcomes.
C13_Witness ==
  /\ last.op = "unlink_targets"
  /\ fs = last.pre
  /\ Len(last.res.actions) = 2

\* A link-mode run over two candidates.
C13_TwoCandidates ==
  /\ last.op = "link_mode" /\ last.res.st = "ok"
  /\ Len(last.res.actions) = 2

(***************************************************************************)
(* C14.  Negation, last match wins: a path matched by a pattern P and by a *)
(* later !P is never a candidate; the patterns .env, .env.*,               *)
(* !.env.production over the files .env, .env.local, .env.production yield *)
(* exactly .env and .env.local.                                            *)
(***************************************************************************)
\* The patterns of the call that match the entry at p, by position.
Hits(p) ==
  {i \in DOMAIN last.args.patterns :
     GlobMatches(last.args.patterns[i], p, last.pre[p].kind = "dir")}

\* The last pattern that matches the entry at p is a negation.
NegatedLast(p) ==
  /\ Hits(p) # {}
  /\ \E i \in Hits(p) : last.args.patterns[i].neg /\ \A j \in Hits(p) : j <= i

\* The source root holds the three environment files and nothing else.
EnvFiles ==
  /\ Entries = {Append(SRoot, ".env"), Append(SRoot, ".env.local"),
                Append(SRoot, ".env.production")}
  /\ \A p \in Entries : last.pre[p].kind = "file"

\* An entry whose last matching pattern is a negation is not returned, and
\* the .env patterns over the three environment files return .env and
\* .env.local.
C14_NegationLastMatchWins ==
  WalkOk
  => /\ \A p \in Entries : NegatedLast(p) => p \notin Targets
     /\ (last.args.patterns = EnvPatterns /\ EnvFiles)
        => last.res.targets = <<Append(SRoot, ".env"), Append(SRoot, ".env.local")>>

\* The .env patterns ran over the three environment files.
C14_Witness ==
  /\ WalkOk
  /\ last.args.patterns = EnvPatterns /\ EnvFiles
  /\ NegatedLast(Append(SRoot, ".env.production"))
  /\ Append(SRoot, ".env.production") \notin Targets

(***************************************************************************)
(* C15.  Override precedence: with no_ignore = false, every path the       *)
(* pattern set whitelists is collected even when the repository's ignore   *)
(* rules exclude it.                                                       *)
(***************************************************************************)
\* The entry at p is named .git or lies in a directory that is named .git
\* or is itself whitelisted.
SetAside(p) ==
  \/ Last(p) = ".git"
  \/ \E i \in (Len(SRoot) + 1)..(Len(p) - 1) :
       p[i] = ".git" \/ Verdict(SubSeq(p, 1, i)) = "Whitelist"

\* C15 as stated, for the entries that .git pruning and directory collapse
\* do not set aside: without --no-ignore every whitelisted entry below the
\* source root is returned.
C15_Original ==
  (WalkOk /\ ~last.args.no_ignore)
  => \A p \in Entries : (Verdict(p) = "Whitelist" /\ ~SetAside(p)) => p \in Targets

\* C15 for the entries the walk comes to: without --no-ignore every
\* whitelisted entry not named .git that lies in directories the walk
\* enters is returned, whether or not the repository's rules exclude it.
C15_OverridePrecedence ==
  (WalkOk /\ ~last.args.no_ignore)
  => \A p \in Entries :
       (Verdict(p) = "Whitelist" /\ Last(p) # ".git" /\ ComesTo(p))
       => p \in Targets

\* An entry the repository's rules exclude was returned.
C15_Witness ==
  /\ WalkOk /\ ~last.args.no_ignore
  /\ \E p \in Targets : Last(p) \in last.args.ignored

(***************************************************************************)
(* C16.  With no_ignore = false, a file that matches a pattern but sits    *)
(* inside a directory excluded by the repository's ignore rules (the       *)
(* directory itself matching no pattern) is not collected; with            *)
(* no_ignore = true the same file is collected.                            *)
(***************************************************************************)
\* The file at p matches a pattern and lies in a directory that the
\* repository's rules exclude and no pattern matches.
InIgnoredDirectory(p) ==
  /\ last.pre[p].kind = "file"
  /\ Verdict(p) = "Whitelist"
  /\ \E i \in (Len(SRoot) + 1)..(Len(p) - 1) :
       /\ p[i] \in last.args.ignored
       /\ Verdict(SubSeq(p, 1, i)) = "None"

\* The call of `last` with --no-ignore.
WithNoIgnore ==
  collect_targets(last.pre, SRoot, last.args.patterns, TRUE,
                  [ignored |-> last.args.ignored,
                   order |-> CHOOSE o \in Perms(EntryNames(last.pre, SRoot)) : TRUE],
                  last.fault)

\* When no directory is unreadable: such a file is not in the list returned
\* without --no-ignore and is in the list returned with it.
C16_IgnoredDirectory ==
  (WalkOk /\ ~last.args.no_ignore /\ last.fault = NoFault)
  => \A p \in Entries :
       InIgnoredDirectory(p)
       => (p \notin Targets /\ p \in Range(WithNoIgnore.targets))

\* A pattern-matching file inside an ignored directory was left out.
C16_Witness ==
  /\ WalkOk /\ ~last.args.no_ignore /\ last.fault = NoFault
  /\ \E p \in Entries :
       InIgnoredDirectory(p) /\ p \notin Targets /\ p \in Range(WithNoIgnore.targets)

(***************************************************************************)
(* C19.  During collect_targets an error reading an individual entry is    *)
(* skipped and the walk continues; only failure to read the root makes     *)
(* collect_targets fail.                                                   *)
(***************************************************************************)
\* The same call when every directory can be read.
Unfaulted ==
  collect_targets(last.pre, SRoot, last.args.patterns, last.args.no_ignore,
                  [ignored |-> last.args.ignored,
                   order |-> CHOOSE o \in Perms(EntryNames(last.pre, SRoot)) : TRUE],
                  NoFault)

\* C19 as stated: with valid patterns and a directory below the root that
\* cannot be read, collect_targets succeeds and returns what it returns
\* when every directory can be read, less what lies in that directory.
C19_EntryErrorsSkipped ==
  (/\ last.op = "collect_targets"
   /\ build_overrides(last.args.patterns)
   /\ last.fault.kind = "readdir" /\ last.fault.path # SRoot)
  => /\ last.res.st = "ok"
     /\ Targets = {p \in Range(Unfaulted.targets) : ~StrictlyUnder(p, last.fault.path)}

\* An unreadable root fails the call.
C19_RootFails ==
  (last.op = "collect_targets" /\ last.fault = ReadDirFault(SRoot))
  => last.res.st = "err"

(***************************************************************************)
(* C20.  Every path returned by collect_targets lies strictly below the    *)
(* source root, has no component named .git whatever the patterns say,     *)
(* and is Whitelisted by the override; an entry matching no pattern is     *)
(* never returned.                                                         *)
(***************************************************************************)
C20_ReturnedPaths ==
  WalkOk
  => \A p \in Targets :
       /\ p \in Entries
       /\ \A i \in (Len(SRoot) + 1)..Len(p) : p[i] # ".git"
       /\ Verdict(p) = "Whitelist"
       /\ Hits(p) # {}

\* Something was returned while the patterns whitelist an entry named .git
\* and another inside a directory named .git.
C20_Witness ==
  /\ WalkOk
  /\ Targets # {}
  /\ \E p, q \in Entries :
       /\ Last(p) = ".git" /\ Verdict(p) = "Whitelist"
       /\ StrictlyUnder(q, p) /\ Verdict(q) = "Whitelist"

(***************************************************************************)
(* Vocabulary of the properties of main.                                   *)
(***************************************************************************)
Cli == last.args.cli

\* Nothing was read, walked, created or removed.
NoWork == last.res.did = {} /\ last.res.actions = <<>> /\ fs = last.pre

\* --source was given and TARGET or it is missing or no directory, or both
\* are directories and they are the same or one lies in the other.
BadRoots ==
  /\ Cli.source.some
  /\ \/ ~IsDir(last.pre, Cli.target)
     \/ ~IsDir(last.pre, Cli.source.path)
     \/ StartsWith(Canonicalize(last.pre, Cli.target).path,
                   Canonicalize(last.pre, Cli.source.path).path)
     \/ StartsWith(Canonicalize(last.pre, Cli.source.path).path,
                   Canonicalize(last.pre, Cli.target).path)

\* The roots pass and the run is in link mode with a readable pattern file.
LinkRun ==
  /\ last.op = "main"
  /\ ~Cli.unlink /\ Cli.config.readable
  /\ RootsOk(ResolveSource(last.pre, Cli.source, last.args.git),
             ResolveTarget(last.pre, Cli.target))

(***************************************************************************)
(* C17.  Root-resolution errors are fatal before any work: when the source *)
(* or the target is missing or not a directory, when they are the same     *)
(* directory, or when one is nested in the other, the run fails without    *)
(* reading the pattern file, walking any tree, or creating or removing any *)
(* entry.                                                                  *)
(***************************************************************************)
C17_RootErrorsFatal ==
  (last.op = "main" /\ BadRoots) => (last.res.st = "err" /\ NoWork)

\* A real run between two directories, one inside the other.
C17_Witness ==
  /\ last.op = "main" /\ ~Cli.dry_run
  /\ Cli.source.some
  /\ IsDir(last.pre, Cli.target) /\ IsDir(last.pre, Cli.source.path)
  /\ StrictlyUnder(Canonicalize(last.pre, Cli.target).path,
                   Canonicalize(last.pre, Cli.source.path).path)
  /\ last.res.st = "err" /\ NoWork

(***************************************************************************)
(* C18.  Configuration errors are fatal: an empty pattern set, or any      *)
(* invalid glob, makes the run fail with the whole pattern set rejected,   *)
(* before any file system entry is touched.                                *)
(***************************************************************************)
\* No tree was walked and nothing was created or removed.
Untouched == "walk" \notin last.res.did /\ last.res.actions = <<>> /\ fs = last.pre

InvalidGlob == \E i \in DOMAIN Cli.config.patterns : ~ValidGlob(Cli.config.patterns[i])

\* C18 as stated: a link-mode run on an empty pattern set or on one with an
\* invalid glob fails and touches nothing.
C18_Original ==
  (LinkRun /\ (Cli.config.patterns = <<>> \/ InvalidGlob))
  => (last.res.st = "err" /\ Untouched)

\* C18 for the invalid glob alone, and what an empty set does: a link-mode
\* run on a pattern set with an invalid glob fails and touches nothing; on
\* an empty pattern set it succeeds and touches nothing.
C18_ConfigErrors ==
  /\ (LinkRun /\ InvalidGlob) => (last.res.st = "err" /\ Untouched)
  /\ (LinkRun /\ Cli.config.patterns = <<>>) => (last.res.st = "ok" /\ Untouched)

\* A real run whose pattern set holds an invalid glob and a pattern that
\* matches an entry of the source root.
C18_Witness ==
  /\ LinkRun /\ ~Cli.dry_run
  /\ InvalidGlob
  /\ \E i \in DOMAIN Cli.config.patterns :
       /\ ValidGlob(Cli.config.patterns[i])
       /\ Append(SRoot, Cli.config.patterns[i].name) \in DOMAIN last.pre
  /\ Cli.source = Source(SRoot)
  /\ last.res.st = "err" /\ Untouched

(***************************************************************************)
(* C22.  create_link returns exactly one outcome fixed by (target exists,  *)
(* force, an ancestor is a symlink): Created when the target is absent and *)
(* no ancestor is a symlink, having created missing parent directories and *)
(* the symlink; Overwritten when the target exists, force is true and no   *)
(* ancestor is a symlink, having removed the existing entry (recursively   *)
(* if it is a directory) and put the symlink in its place; Skipped in      *)
(* every other case.                                                       *)
(***************************************************************************)
\* The outcome the three facts fix.
Fixed(f, tgt, force) ==
  IF SymlinkAncestor(f, tgt) THEN "Skipped"
  ELSE IF ~Present(f, tgt) THEN "Created"
  ELSE IF force THEN "Overwritten"
  ELSE "Skipped"

\* The link to src stands at tgt inside real directories, and f is g with
\* that link and its parent directories added and whatever stood at tgt or
\* below it taken away.
Installed(g, f, src, tgt) ==
  /\ tgt \in DOMAIN f /\ f[tgt] = Link(src)
  /\ \A i \in 1..(Len(tgt) - 1) :
       SubSeq(tgt, 1, i) \in DOMAIN f /\ f[SubSeq(tgt, 1, i)].kind = "dir"
  /\ \A q \in DOMAIN g : StartsWith(q, tgt) \/ (q \in DOMAIN f /\ f[q] = g[q])
  /\ \A q \in DOMAIN f \ DOMAIN g : StartsWith(tgt, q)
  /\ \A q \in DOMAIN f : ~StrictlyUnder(q, tgt)

\* What a call with an absolute source in which no operation is refused
\* leaves behind, for the outcome it returned.
OutcomeDone ==
  /\ last.res.st = "ok"
  /\ last.res.act = Fixed(last.pre, last.args.tgt, last.args.force)
  /\ (last.args.dry_run \/ last.res.act = "Skipped") => fs = last.pre
  /\ (~last.args.dry_run /\ last.res.act # "Skipped")
     => Installed(last.pre, fs, last.args.src, last.args.tgt)

Placeable(f, tgt) ==
  \A i \in 1..(Len(tgt) - 1) :
    SubSeq(tgt, 1, i) \in DOMAIN f => f[SubSeq(tgt, 1, i)].kind # "file"

LeadsToEntries(f, p) ==
  /\ IsDir(f, p)
  /\ \E q \in DOMAIN f : StrictlyUnder(q, Canonicalize(f, p).path)

\* Every outcome of an unlink run is about a symlink that stands, in real
\* directories only, below the target root; what the run removed are the
\* links it reports as Removed, nothing else; and a link to a directory
\* that the run removed took nothing of that directory with it.
C23_NoDescentThroughSymlinks ==
  last.op = "unlink_targets"
  => /\ \A a \in Range(last.res.actions) :
          /\ StrictlyUnder(a.path, TRoot)
          /\ a.path \in DOMAIN last.pre /\ last.pre[a.path].kind = "link"
          /\ ~SymlinkAncestor(last.pre, a.path)
     /\ \A q \in DOMAIN last.pre :
          q \in DOMAIN fs \/ Removed(q) \in Range(last.res.actions)
     /\ \A q \in DOMAIN fs : q \in DOMAIN last.pre /\ fs[q] = last.pre[q]

\* A link to a directory was removed, and in that directory stands a
\* symlink into the source tree.
C23_Witness ==
  /\ RealUnlink
  /\ \E p \in LinksBelow(last.pre, TRoot) :
       /\ LeadsToEntries(last.pre, p)
       /\ Removed(p) \in Range(last.res.actions)
       /\ \E q \in DOMAIN fs :
            /\ StrictlyUnder(q, Canonicalize(last.pre, p).path)
            /\ fs[q].kind = "link" /\ UnderSource(fs, q)

(***************************************************************************)
(* C27.  unlink_targets never inspects, removes or reports anything inside *)
(* a real directory named .git under the target root, at any depth, even a *)
(* symlink there whose destination resolves under the source root; a       *)
(* symlink that is itself named .git is still visited.                     *)
(***************************************************************************)
\* p lies in a directory named .git below the target root.
InsideGit(p) == \E i \in (Len(TRoot) + 1)..(Len(p) - 1) : p[i] = ".git"

\* No outcome is about an entry inside a directory named .git and every
\* such entry stays as it was; in a real run in which nothing is refused a
\* symlink named .git, outside such directories, that resolves under the
\* source root whatever happens to the other links is removed and reported.
C27_GitDirectoriesSkipped ==
  last.op = "unlink_targets"
  => /\ \A a \in Range(last.res.actions) : ~InsideGit(a.path)
     /\ \A q \in DOMAIN last.pre :
          InsideGit(q) => (q \in DOMAIN fs /\ fs[q] = last.pre[q])
     /\ (~last.args.dry_run /\ last.fault = NoFault)
        => \A p \in LinksBelow(last.pre, TRoot) :
             (/\ Last(p) = ".git" /\ ~InsideGit(p)
              /\ UnderSource(last.pre, p) /\ Independent(last.pre, p))
             => (Removed(p) \in Range(last.res.actions) /\ p \notin DOMAIN fs)

\* A real run removed a symlink into the source tree and left another one,
\* standing inside a directory named .git, as it was.
C27_Witness ==
  /\ RealUnlink /\ last.fault = NoFault
  /\ \E q \in LinksBelow(fs, TRoot) :
       InsideGit(q) /\ UnderSource(last.pre, q) /\ Independent(last.pre, q)
  /\ \E p \in LinksBelow(last.pre, TRoot) :
       Removed(p) \in Range(last.res.actions)

(***************************************************************************)
(* C24.  For a path whose full canonicalization fails because it is        *)
(* dangling, canonicalize_with_ancestor_fallback gives the canonical form  *)
(* of the deepest existing ancestor with the remaining suffix re-appended, *)
(* so a dangling destination reached through a symlinked directory still   *)
(* compares as under the canonical source root.                            *)
(***************************************************************************)
\* The normalized destination of the link at p.
NormalDest(f, p) == normalize_lexically(JoinDest(p, f[p].dest))

Dangling(f, p) == ~Exists(f, NormalDest(f, p))

\* The length of the longest prefix of n that resolves ("/" always does).
DeepestExisting(f, n) ==
  CHOOSE k \in 0..Len(n) :
    /\ Exists(f, SubSeq(n, 1, k))
    /\ \A j \in (k + 1)..Len(n) : ~Exists(f, SubSeq(n, 1, j))

\* The canonical form of the deepest existing ancestor of n, then the rest.
ThroughAncestor(f, n, k) ==
  Canonicalize(f, SubSeq(n, 1, k)).path \o SubSeq(n, k + 1, Len(n))

ExpectedFallback(f, n) == ThroughAncestor(f, n, DeepestExisting(f, n))

\* For every symlink below the target root with a dangling destination the
\* function gives the canonical deepest existing ancestor plus the suffix;
\* and an unlink run in which nothing is refused reports Removed every such
\* link for which that path is under the canonical source root (in a real
\* run: when no other removal changes what its destination passes through).
C24_AncestorFallback ==
  /\ \A p \in LinksBelow(fs, TRoot) :
       Dangling(fs, p)
       => canonicalize_with_ancestor_fallback(fs, JoinDest(p, fs[p].dest))
            = ExpectedFallback(fs, NormalDest(fs, p))
  /\ (last.op = "unlink_targets" /\ last.fault = NoFault)
     => \A p \in LinksBelow(last.pre, TRoot) :
          (/\ ~SymlinkAncestor(last.pre, p)
           /\ Reached(p)
           /\ Dangling(last.pre, p)
           /\ StartsWith(ExpectedFallback(last.pre, NormalDest(last.pre, p)),
                         Canonicalize(last.pre, SRoot).path)
           /\ (last.args.dry_run \/ Independent(last.pre, p)))
          => Removed(p) \in Range(last.res.actions)

\* A real run removed a link whose dangling destination is lexically outside
\* the source root and leads into it through a symlinked directory.
C24_Witness ==
  /\ RealUnlink
  /\ \E p \in LinksBelow(last.pre, TRoot) :
       /\ Dangling(last.pre, p)
       /\ ~StartsWith(NormalDest(last.pre, p), SRoot)
       /\ DeepestExisting(last.pre, NormalDest(last.pre, p)) > 1
       /\ Removed(p) \in Range(last.res.actions)
       /\ p \notin DOMAIN fs

(***************************************************************************)
(* C25.  After any link-mode or unlink-mode invocation (any flags, any     *)
(* patterns; the roots distinct and not nested) no file or directory       *)
(* inside the source tree has been created, modified or removed;           *)
(* overwriting or unlinking a symlink that points at a source directory    *)
(* removes only the link.                                                  *)
(***************************************************************************)
\* The source root and everything below it.
SourceTree(f) == [q \in Subtree(f, SRoot) |-> f[q]]

\* p is a symlink leading to a directory of the source tree that holds an
\* entry.
LeadsToSourceDir(f, p) ==
  /\ IsDir(f, p)
  /\ StartsWith(Canonicalize(f, p).path, SRoot)
  /\ \E q \in DOMAIN f : StrictlyUnder(q, Canonicalize(f, p).path)

\* Whatever was called, with whatever arguments and whatever refused, the
\* source tree is what it was before the call.
C25_SourceTreeUntouched ==
  last.op # "none" => SourceTree(fs) = SourceTree(last.pre)

\* A real link-mode run under --force replaced a symlink that led to a
\* source directory holding an entry.
C25_Witness ==
  /\ RealLink /\ last.args.force
  /\ \E a \in Range(last.res.actions) :
       /\ a.act = "Overwritten"
       /\ a.path \in LinksBelow(last.pre, TRoot)
       /\ LeadsToSourceDir(last.pre, a.path)
       /\ fs[a.path] = Link(Abs(a.source))

(***************************************************************************)
(* C26.  In link mode every link is placed at target_root joined with the  *)
(* candidate's path relative to source_root, its destination is the        *)
(* candidate's absolute source path, and no entry outside the target root  *)
(* is created or removed.                                                  *)
(***************************************************************************)
\* Where the link for the candidate at source path c belongs.
Mirror(c) == TRoot \o StripPrefix(c, SRoot)

Placed(a) == a.act \in {"Created", "Overwritten"}

\* Every outcome of a link-mode run is about a candidate strictly below the
\* source root and names its mirror path; after a real run a symlink to the
\* candidate's absolute path stands at the mirror path of every candidate
\* reported Created or Overwritten; every entry outside the target root is
\* as it was and nothing new stands there.
C26_LinksMirrorSource ==
  last.op = "link_mode"
  => /\ \A a \in Range(last.res.actions) :
          /\ StrictlyUnder(a.source, SRoot)
          /\ a.path = Mirror(a.source)
          /\ (Placed(a) /\ ~last.args.dry_run)
             => (a.path \in DOMAIN fs /\ fs[a.path] = Link(Abs(a.source)))
     /\ \A q \in DOMAIN last.pre \cup DOMAIN fs :
          ~StrictlyUnder(q, TRoot)
          => (q \in DOMAIN last.pre /\ q \in DOMAIN fs /\ fs[q] = last.pre[q])

\* A real run created a link two levels below the target root, making the
\* directory above it.
C26_Witness ==
  /\ RealLink
  /\ \E a \in Range(last.res.actions) :
       /\ a.act = "Created"
       /\ Len(a.path) = Len(TRoot) + 2
       /\ Front(a.path) \notin DOMAIN last.pre
       /\ fs[Front(a.path)] = Dir
       /\ fs[a.path] = Link(Abs(a.source))

(***************************************************************************)
(* config.rs.  The content of a .worktreelinks file is a sequence of       *)
(* characters; a line and a pattern are sequences of characters too.       *)
(***************************************************************************)
\* char::is_whitespace, of the characters a content is made of here.
Whitespace == {" ", "\r", "\n"}

RECURSIVE SplitInclusive(_)
\* str::split_inclusive('\n'): the pieces of content, each up to and with
\* its line feed; the last piece has none when content does not end in one.
SplitInclusive(content) ==
  IF content = <<>> THEN <<>>
  ELSE IF \A i \in DOMAIN content : content[i] # "\n" THEN <<content>>
  ELSE LET i == CHOOSE i \in DOMAIN content :
                  content[i] = "\n" /\ \A j \in 1..(i - 1) : content[j] # "\n"
       IN <<SubSeq(content, 1, i)>> \o SplitInclusive(SubSeq(content, i + 1, Len(content)))

\* What str::lines makes of a piece: a closing line feed is taken off, then
\* a carriage return closing what is left; a piece without a line feed is
\* the line.
StripEnding(piece) ==
  IF piece = <<>> \/ Last(piece) # "\n" THEN piece
  ELSE IF Len(piece) > 1 /\ piece[Len(piece) - 1] = "\r" THEN SubSeq(piece, 1, Len(piece) - 2)
  ELSE Front(piece)

\* content.lines()
lines(content) ==
  [k \in DOMAIN SplitInclusive(content) |-> StripEnding(SplitInclusive(content)[k])]

RECURSIVE trim_start(_)
trim_start(line) ==
  IF line # <<>> /\ Head(line) \in Whitespace THEN trim_start(Tail(line)) ELSE line

RECURSIVE trim_end(_)
trim_end(line) ==
  IF line # <<>> /\ Last(line) \in Whitespace THEN trim_end(Front(line)) ELSE line

\* The line is taken as it stands.
trim_none(line) == line

\* line.trim()
trim(line) == trim_end(trim_start(line))

\* The filter: !line.is_empty() && !line.starts_with('#')
IsPattern(line) == line # <<>> /\ Head(line) # "#"

\* Config::parse: lines, each trimmed, those the filter keeps collected in
\* order.
parse(content) ==
  SelectSeq([k \in DOMAIN lines(content) |-> trim(lines(content)[k])], IsPattern)

\* The contents a file may hold.
Contents ==
  UNION {[1..n -> {"a", "#", " ", "\r", "\n"}] : n \in 0..MaxContentLen}

InitParse ==
  /\ fs = Base
  /\ last = NoCall
  /\ runs = 0

(***************************************************************************)
(* One call of Config::parse.                                              *)
(***************************************************************************)
Parse ==
  /\ runs < MaxRuns
  /\ \E content \in Contents :
       Returned("parse", [content |-> content], NoFault,
                [patterns |-> parse(content), fs |-> fs])
  /\ runs' = runs + 1

SpecParse == InitParse /\ [][Parse]_vars

(***************************************************************************)
(* C21.  Config::parse returns, in file order, exactly the lines that      *)
(* after trimming whitespace are non-empty and do not begin with '#'; an   *)
(* empty file or a file holding only comments yields an empty pattern      *)
(* list.                                                                   *)
(***************************************************************************)
\* The positions of the line feeds of c, and the k-th of them; position 0
\* stands before c and the position after the last line feed is the end.
Breaks(c) == {i \in DOMAIN c : c[i] = "\n"}

Break(c, k) ==
  IF k = 0 THEN 0
  ELSE IF k > Cardinality(Breaks(c)) THEN Len(c) + 1
  ELSE CHOOSE i \in Breaks(c) : Cardinality({j \in Breaks(c) : j <= i}) = k

\* A file has a line for every line feed and one more for what follows the
\* last line feed, if anything does.
NumLines(c) ==
  Cardinality(Breaks(c)) + (IF c # <<>> /\ Last(c) # "\n" THEN 1 ELSE 0)

\* The k-th line of c: what stands between two line feeds.
LineAt(c, k) == SubSeq(c, Break(c, k - 1) + 1, Break(c, k) - 1)

\* l without the whitespace before its first and after its last character
\* that is none.
Core(l) ==
  LET ink == {i \in DOMAIN l : l[i] \notin Whitespace}
  IN IF ink = {} THEN <<>>
     ELSE SubSeq(l, CHOOSE i \in ink : \A j \in ink : i <= j,
                    CHOOSE i \in ink : \A j \in ink : j <= i)

Kept(l) == l # <<>> /\ l[1] # "#"

\* The patterns returned are the trimmed lines of the content that are
\* non-empty and do not begin with '#', in the order of the file; a content
\* in which every line is blank or a comment gives none.
C21_ParseKeepsPatternLines ==
  last.op = "parse"
  => /\ last.res.patterns
          = SelectSeq([k \in 1..NumLines(last.args.content) |->
                         Core(LineAt(last.args.content, k))], Kept)
     /\ (\A k \in 1..NumLines(last.args.content) :
           ~Kept(Core(LineAt(last.args.content, k))))
        => last.res.patterns = <<>>

\* A content with a comment, a blank line and a pattern with whitespace
\* around it gave that pattern alone.
C21_Witness ==
  /\ last.op = "parse"
  /\ last.args.content = <<"#", "\n", " ", "a", " ">>
  /\ last.res.patterns = <<<<"a">>>>

====
